---- MODULE Spec2Model ----
(***************************************************************************)
(* EmbeddedEngine command-line shell (src/src/main.rs).                    *)
(*                                                                         *)
(* main() parses the process arguments with the derived clap parser of    *)
(* `Cli` (one boolean flag, -v/--verbose, plus the generated -h/--help    *)
(* and -V/--version), calls the engine entry point run(args.verbose) and  *)
(* returns its Result, which the Rust runtime turns into the exit status. *)
(*                                                                         *)
(* The engine (embeddedengine::run) is not part of the visible source: it *)
(* is modelled as an opaque call that returns success or an opaque error. *)
(***************************************************************************)
EXTENDS Naturals, Sequences, FiniteSets

VARIABLES
    argv,        \* the process argument list (without the program name)
    phase,       \* "Start" | "Parsed" | "Delegated" | "Terminated"
    args,        \* Some(the parsed Cli value), or None
    printed,     \* what the parser printed: "none" | "help" | "version" | "usage_error"
    engineCalls, \* number of calls of run() made so far
    engineArg,   \* Some(the argument of the call of run()), or None
    result,      \* Some(what run() returned), or None
    outcome,     \* Some(what main() returned to the runtime), or None
    exitStatus   \* Some(the process exit status), or None while running

vars == <<argv, phase, args, printed, engineCalls, engineArg, result, outcome, exitStatus>>

-----------------------------------------------------------------------------
(* Bounds of the model *)

\* longest argument list explored
MaxArgs == 3

\* number of distinct opaque failures the engine can report
NumErrors == 2

-----------------------------------------------------------------------------
(* Values *)

\* A value that may be absent: None, or Some(x).
None == <<>>
Some(x) == <<x>>

\* Exit statuses: Ok(()) from main is ExitCode::SUCCESS, Err(e) is
\* ExitCode::FAILURE; the parser exits with 0 after help/version and with its
\* usage-error code after a rejected argument list.
ExitSuccess == 0
ExitFailure == 1
ExitUsage == 2

\* The command-line tokens explored.  "-vv" and "-vh" are clusters of short
\* flags; "--bogus" is a flag the parser does not know; "file" is a
\* positional argument; "--" ends option parsing.
VerboseTokens == {"-v", "--verbose"}
HelpTokens == {"-h", "--help"}
VersionTokens == {"-V", "--version"}
ClusterTokens == {"-vv", "-vh"}
OtherTokens == {"--bogus", "file", "--"}
Tokens == VerboseTokens \cup HelpTokens \cup VersionTokens \cup ClusterTokens \cup OtherTokens

ArgLists == UNION {[1..n -> Tokens] : n \in 0..MaxArgs}

\* The opaque failures of the engine.
EngineErrors == {<<"EngineError", k>> : k \in 1..NumErrors}
Ok == [ok |-> TRUE, err |-> <<>>]
Err(e) == [ok |-> FALSE, err |-> e]
EngineOutcomes == {Ok} \cup {Err(e) : e \in EngineErrors}

-----------------------------------------------------------------------------
(* The derived parser of Cli *)

\* What one token stands for: the sequence of arguments it names.
Atoms(t) ==
    CASE t \in VerboseTokens -> <<"verbose">>
      [] t \in HelpTokens -> <<"help">>
      [] t \in VersionTokens -> <<"version">>
      [] t = "-vv" -> <<"verbose", "verbose">>
      [] t = "-vh" -> <<"verbose", "help">>
      [] t = "--" -> <<"escape">>
      [] t = "file" -> <<"positional">>
      [] OTHER -> <<"unknown">>

\* `verbose: bool` without a default value: false unless the flag is given.
DefaultVerboseTrue == TRUE
DefaultVerbose == FALSE

\* Parser state: kind "run" while parsing goes on, else how it ended.
ParserStart == [kind |-> "run", verbose |-> DefaultVerbose, seen |-> FALSE, trailing |-> FALSE]

Stop(st, k) == [st EXCEPT !.kind = k]

\* -v / --verbose: a SetTrue flag.  A second occurrence of the same argument
\* is a usage error ("cannot be used multiple times").
ReactVerboseOverride(st) == [st EXCEPT !.verbose = TRUE, !.seen = TRUE]
ReactVerbose(st) ==
    IF st.seen THEN Stop(st, "error")
    ELSE [st EXCEPT !.verbose = TRUE, !.seen = TRUE]

\* -h / --help and -V / --version (generated by #[command(version, ...)]):
\* print and leave the parser at once.
ReactHelpContinue(st) == st
ReactHelp(st) == Stop(st, "help")
ReactVersion(st) == Stop(st, "version")

\* A flag that is not defined, or a positional argument (Cli has none).
ReactUnknownIgnore(st) == st
ReactUnknown(st) == Stop(st, "error")

React(atom, st) ==
    CASE atom = "verbose" -> ReactVerbose(st)
      [] atom = "help" -> ReactHelp(st)
      [] atom = "version" -> ReactVersion(st)
      [] atom = "escape" -> [st EXCEPT !.trailing = TRUE]
      [] OTHER -> ReactUnknown(st)

RECURSIVE ParseAtoms(_, _, _)
ParseAtoms(atoms, j, st) ==
    IF j > Len(atoms) \/ st.kind # "run" THEN st
    ELSE ParseAtoms(atoms, j + 1, React(atoms[j], st))

\* Arguments are taken left to right; the first one that ends parsing
\* (help, version, error) decides.  After "--" every token is positional.
RECURSIVE ParseFrom(_, _, _)
ParseFrom(a, i, st) ==
    IF i > Len(a) \/ st.kind # "run" THEN st
    ELSE IF st.trailing THEN ParseFrom(a, i + 1, ReactUnknown(st))
    ELSE ParseFrom(a, i + 1, ParseAtoms(Atoms(a[i]), 1, st))

\* Cli::parse(): "ok" with the Cli value, or "help" / "version" / "error".
ParseArgs(a) ==
    LET st == ParseFrom(a, 1, ParserStart)
    IN [kind |-> IF st.kind = "run" THEN "ok" ELSE st.kind, verbose |-> st.verbose]

\* Exit status the parser leaves with when it does not return.
ParserExitStatus(kind) == IF kind = "error" THEN ExitUsage ELSE ExitSuccess

ParserPrinted(kind) == IF kind = "error" THEN "usage_error" ELSE kind

-----------------------------------------------------------------------------
(* Result<()> returned from main: the runtime's exit status *)

ExitAlwaysSuccess(r) == ExitSuccess
ExitAlwaysFailure(r) == ExitFailure
ExitStatusOf(r) == IF r.ok THEN ExitSuccess ELSE ExitFailure

-----------------------------------------------------------------------------
(* The run of the process *)

Init ==
    /\ argv \in ArgLists
    /\ phase = "Start"
    /\ args = None
    /\ printed = "none"
    /\ engineCalls = 0
    /\ engineArg = None
    /\ result = None
    /\ outcome = None
    /\ exitStatus = None

\* let args = Cli::parse();  -- the parser returns the configuration
ParseOk ==
    /\ phase = "Start"
    /\ ParseArgs(argv).kind = "ok"
    /\ args' = Some([verbose |-> ParseArgs(argv).verbose])
    /\ phase' = "Parsed"
    /\ UNCHANGED <<argv, printed, engineCalls, engineArg, result, outcome, exitStatus>>

\* let args = Cli::parse();  -- the parser prints help, version or a usage
\* error and exits the process; main never continues
ParseExit ==
    /\ phase = "Start"
    /\ ParseArgs(argv).kind # "ok"
    /\ printed' = ParserPrinted(ParseArgs(argv).kind)
    /\ exitStatus' = Some(ParserExitStatus(ParseArgs(argv).kind))
    /\ phase' = "Terminated"
    /\ UNCHANGED <<argv, args, engineCalls, engineArg, result, outcome>>

\* run(args.verbose)  -- the call (Delegate; the two before it are variants
\* that call twice, and that pass a constant)
DelegateTwice ==
    /\ phase = "Parsed"
    /\ engineCalls' = engineCalls + 2
    /\ engineArg' = Some(args[1].verbose)
    /\ phase' = "Delegated"
    /\ UNCHANGED <<argv, args, printed, result, outcome, exitStatus>>
DelegateQuiet ==
    /\ phase = "Parsed"
    /\ engineCalls' = engineCalls + 1
    /\ engineArg' = Some(FALSE)
    /\ phase' = "Delegated"
    /\ UNCHANGED <<argv, args, printed, result, outcome, exitStatus>>
Delegate ==
    /\ phase = "Parsed"
    /\ engineCalls' = engineCalls + 1
    /\ engineArg' = Some(args[1].verbose)
    /\ phase' = "Delegated"
    /\ UNCHANGED <<argv, args, printed, result, outcome, exitStatus>>

\* the engine finishes: success or an opaque failure, whatever it was given
EngineReturn ==
    /\ phase = "Delegated"
    /\ result = None
    /\ \E r \in EngineOutcomes : result' = Some(r)
    /\ UNCHANGED <<argv, phase, args, printed, engineCalls, engineArg, outcome, exitStatus>>

\* main returns the value of run(args.verbose) as its own value, and the
\* runtime exits with the status of that value (MainReturn; the two before
\* it are variants that retry a failed call, and that wrap the error)
MainReturnRetry ==
    /\ phase = "Delegated"
    /\ result # None
    /\ IF result[1].ok
       THEN /\ outcome' = result
            /\ exitStatus' = Some(ExitStatusOf(result[1]))
            /\ phase' = "Terminated"
            /\ UNCHANGED result
       ELSE /\ result' = None
            /\ phase' = "Parsed"
            /\ UNCHANGED <<outcome, exitStatus>>
    /\ UNCHANGED <<argv, args, printed, engineCalls, engineArg>>
MainReturnWrapped ==
    /\ phase = "Delegated"
    /\ result # None
    /\ outcome' = IF result[1].ok THEN result ELSE Some(Err(<<"Wrapped", result[1].err[2]>>))
    /\ exitStatus' = Some(ExitStatusOf(outcome'[1]))
    /\ phase' = "Terminated"
    /\ UNCHANGED <<argv, args, printed, engineCalls, engineArg, result>>
MainReturn ==
    /\ phase = "Delegated"
    /\ result # None
    /\ outcome' = result
    /\ exitStatus' = Some(ExitStatusOf(outcome'[1]))
    /\ phase' = "Terminated"
    /\ UNCHANGED <<argv, args, printed, engineCalls, engineArg, result>>

Next ==
    \/ ParseOk
    \/ ParseExit
    \/ Delegate
    \/ EngineReturn
    \/ MainReturn

Spec == Init /\ [][Next]_vars

-----------------------------------------------------------------------------
(* Vocabulary of the properties: facts about the argument list, stated on   *)
(* the tokens themselves and not through the parser.                        *)

Range(a) == {a[i] : i \in 1..Len(a)}

\* tokens that ask for help or for the version
RequestTokens == HelpTokens \cup VersionTokens \cup {"-vh"}

\* tokens that give the verbosity flag
FlagTokens == VerboseTokens \cup ClusterTokens

\* position i stands before any "--": its token is read as an option
IsOption(a, i) == \A j \in 1..(i - 1) : a[j] # "--"

HasRequest(a) == \E i \in 1..Len(a) : a[i] \in RequestTokens /\ IsOption(a, i)

HasVerboseFlag(a) == \E i \in 1..Len(a) : a[i] \in FlagTokens /\ IsOption(a, i)

\* how many times the list gives the verbosity flag
FlagCount(a) ==
    Cardinality({i \in 1..Len(a) : a[i] \in FlagTokens /\ IsOption(a, i)})
    + Cardinality({i \in 1..Len(a) : a[i] = "-vv" /\ IsOption(a, i)})

\* the first help/version request stands before anything the parser rejects:
\* nothing precedes it, or one verbosity flag does
RequestComesFirst(a) ==
    \E i \in 1..Len(a) :
        /\ a[i] \in RequestTokens
        /\ \/ i = 1
           \/ i = 2 /\ a[1] \in VerboseTokens /\ a[2] # "-vh"

\* one verbosity flag and nothing else, but for a closing "--"
OneFlagOnly(a) ==
    \/ Len(a) = 1 /\ a[1] \in VerboseTokens
    \/ Len(a) = 2 /\ a[1] \in VerboseTokens /\ a[2] = "--"

\* an unrecognized flag or an unexpected positional, and no help/version request
Rejected(a) == ~HasRequest(a) /\ Range(a) \cap {"--bogus", "file"} # {}

PhaseRank(p) ==
    CASE p = "Start" -> 0
      [] p = "Parsed" -> 1
      [] p = "Delegated" -> 2
      [] OTHER -> 3

-----------------------------------------------------------------------------
(* Properties *)

\* C1: run() is invoked at most once in a process run, and only in runs
\* whose command line holds no help or version request.
C1_EngineAtMostOnce ==
    /\ engineCalls <= 1
    /\ engineCalls > 0 => ~HasRequest(argv)

C1_Witness == phase = "Terminated" /\ engineCalls = 1 /\ ~HasRequest(argv)

\* C2: when the engine was invoked and reported failure, the process ends
\* with a non-success exit status, whether it was given true or false.
C2_FailureExit ==
    (phase = "Terminated" /\ engineCalls > 0 /\ result # None /\ ~result[1].ok)
        => exitStatus # None /\ exitStatus # Some(ExitSuccess)

C2_Witness ==
    /\ phase = "Terminated" /\ engineCalls > 0 /\ result # None /\ ~result[1].ok
    /\ engineArg = Some(FALSE) /\ exitStatus = Some(ExitFailure)

\* C3: when the engine was invoked and reported success, the process ends
\* with the success exit status, whether it was given true or false.
C3_SuccessExit ==
    (phase = "Terminated" /\ engineCalls > 0 /\ result = Some(Ok))
        => exitStatus = Some(ExitSuccess)

C3_Witness ==
    /\ phase = "Terminated" /\ engineCalls > 0 /\ result = Some(Ok)
    /\ engineArg = Some(TRUE) /\ exitStatus = Some(ExitSuccess)

\* C4 as stated: every argument list that holds a help or version request
\* never calls the engine and ends with the success exit status, also when
\* the request stands beside other arguments (here: on the lists that give
\* the verbosity flag at most once).
C4_Original ==
    (HasRequest(argv) /\ FlagCount(argv) <= 1) =>
        /\ engineCalls = 0
        /\ phase = "Terminated" => exitStatus = Some(ExitSuccess)

\* C4 amended: an argument list that holds a help or version request never
\* calls the engine; it ends with the success exit status when the request
\* stands before anything the parser rejects, and with the parser's
\* usage-error status when a rejected argument comes first.
C4_HelpVersion ==
    HasRequest(argv) =>
        /\ engineCalls = 0
        /\ args = None
        /\ phase \in {"Start", "Terminated"}
        /\ phase = "Terminated" =>
              /\ RequestComesFirst(argv) =>
                    exitStatus = Some(ExitSuccess) /\ printed \in {"help", "version"}
              /\ ~RequestComesFirst(argv) =>
                    exitStatus = Some(ExitUsage) /\ printed = "usage_error"

C4_Witness ==
    /\ phase = "Terminated" /\ printed = "help" /\ exitStatus = Some(ExitSuccess)
    /\ HasVerboseFlag(argv) /\ Len(argv) > 1 /\ engineCalls = 0

C6_VerboseFalse ==
    (phase # "Start" /\ ~HasVerboseFlag(argv)) =>
        /\ args # None => args = Some([verbose |-> FALSE])
        /\ engineCalls > 0 => engineArg = Some(FALSE)
        /\ argv = <<>> =>
              /\ args # None
              /\ phase \in {"Delegated", "Terminated"} =>
                    engineCalls = 1 /\ engineArg = Some(FALSE)

C6_Witness ==
    /\ argv = <<>> /\ phase = "Delegated" /\ args = Some([verbose |-> FALSE])
    /\ engineCalls = 1 /\ engineArg = Some(FALSE)

\* C7: the engine receives the verbosity value that parsing produced, which
\* is true exactly when the flag was given, and the configuration never
\* changes once it is parsed.
C7_ArgumentIsParsedValue ==
    /\ [](engineCalls > 0 =>
            /\ args # None
            /\ engineArg = Some(args[1].verbose)
            /\ engineArg = Some(HasVerboseFlag(argv)))
    /\ [][args # None => args' = args]_vars

C7_Witness ==
    /\ phase = "Terminated" /\ engineCalls = 1 /\ engineArg = Some(TRUE)
    /\ args = Some([verbose |-> TRUE]) /\ HasVerboseFlag(argv)

\* C8: the phase only moves forward through Start, Parsed, Delegated,
\* Terminated: the engine is called only from Parsed with a configuration,
\* no phase is entered again once left, and nothing happens after Terminated.
C8_PhaseOrder ==
    /\ [][phase' # phase => PhaseRank(phase') > PhaseRank(phase)]_vars
    /\ [][(phase' = "Delegated" /\ phase # "Delegated")
            => phase = "Parsed" /\ args # None]_vars
    /\ [][engineCalls' # engineCalls => phase = "Parsed" /\ phase' = "Delegated"]_vars
    /\ [][phase # "Terminated"]_vars

C8_Witness ==
    /\ phase = "Terminated" /\ engineCalls = 1 /\ args # None
    /\ result # None /\ outcome = result

\* C9: when the engine returns a failure, the process ends with exactly
\* that failure: the engine is not called again, the error is not replaced
\* or wrapped, and it is not turned into a success.
C9_FailureUnchanged ==
    (phase = "Terminated" /\ engineCalls > 0 /\ result # None /\ ~result[1].ok) =>
        /\ outcome = result
        /\ outcome[1].err \in EngineErrors
        /\ engineCalls = 1
        /\ exitStatus = Some(ExitFailure)

C9_Witness ==
    /\ phase = "Terminated" /\ engineCalls = 1
    /\ result \in {Some(Err(e)) : e \in EngineErrors} /\ outcome = result
    /\ engineArg = Some(TRUE)

\* C10: a list the parser rejects (an unrecognized flag or an unexpected
\* positional, no help or version request) ends the run at the parse step:
\* no configuration, no engine call, a non-success exit status; a success
\* exit status comes only from help/version display or from an engine call
\* that reported success.
C10_RejectedArguments ==
    /\ Rejected(argv) =>
          /\ args = None
          /\ engineCalls = 0
          /\ phase \in {"Start", "Terminated"}
          /\ phase = "Terminated" =>
                exitStatus = Some(ExitUsage) /\ exitStatus # Some(ExitSuccess)
    /\ exitStatus = Some(ExitSuccess) =>
          \/ printed \in {"help", "version"} /\ engineCalls = 0
          \/ engineCalls = 1 /\ result = Some(Ok) /\ outcome = Some(Ok)

C10_Witness ==
    /\ phase = "Terminated" /\ Rejected(argv) /\ HasVerboseFlag(argv)
    /\ exitStatus = Some(ExitUsage) /\ printed = "usage_error" /\ engineCalls = 0

====
